---- MODULE Spec2Model ----
(***************************************************************************)
(* Lifecycle state machine of askpanda_atlas_agents.agents.base.Agent.     *)
(*                                                                         *)
(* One agent instance is driven by start(), tick() and stop().  Every      *)
(* assignment of a method is its own step, so that a health() reader can   *)
(* look at the agent while a hook is running.  The hooks (_start_impl,     *)
(* _tick_impl, _stop_impl) are the subclass's: they count their own        *)
(* invocations, as the hooks of the repository's agents and tests do, and  *)
(* either return or raise an exception chosen from Excs.                   *)
(*                                                                         *)
(* Spec          one driver; a call begins only when no call is active.    *)
(* SpecReentrant as Spec, and a call may also be issued while a hook is    *)
(*               executing (bounded call depth), which is the only way a   *)
(*               call meets the states "starting" and "stopping".          *)
(* SpecIngest    an IngestionAgent over two configured sources, whose      *)
(*               _tick_impl is one step per source.                        *)
(* SpecRun       a DummyAgent driven by run_forever(), with request_stop() *)
(*               arriving from other threads; SpecRunLive adds the         *)
(*               fairness of the thread inside run_forever.                *)
(***************************************************************************)
EXTENDS Integers, Sequences, FiniteSets, TLC

\* ---- bounds -------------------------------------------------------------
MaxTime == 2
MaxOps == 3
MaxDepth == 2
\* run_forever() calls made, and tick hooks run by them
MaxRuns == 2
MaxLoopTicks == 2

\* ---- values -------------------------------------------------------------
AgentState == {"new", "starting", "running", "stopping", "stopped", "failed"}

\* Optional[datetime] = None: readings of the clock are 1..MaxTime
NoTime == 0
\* Optional[str] = None: a formatted error text is never empty
NoError == << >>

\* exceptions a hook may raise: a type name and a message
Excs == {[kind |-> "RuntimeError", msg |-> "boom"],
         [kind |-> "ValueError", msg |-> "bad"]}
NoExc == [kind |-> "", msg |-> ""]
\* RuntimeError(f"Agent '{name}' is not running (state=...); cannot tick().")
NotRunningError == [kind |-> "RuntimeError", msg |-> "not running"]

VARIABLES
    state,        \* self._state
    lastTick,     \* self._last_tick_utc
    lastSuccess,  \* self._last_success_utc
    lastError,    \* self._last_error_utc
    error,        \* self._last_error
    started,      \* invocations of _start_impl
    ticks,        \* invocations of _tick_impl
    stopped,      \* invocations of _stop_impl
    now,          \* datetime.now(timezone.utc)
    stack,        \* the active calls, innermost last
    ret,          \* the call that has just returned or raised
    report,       \* the HealthReport of the last health() call
    calls,        \* number of start/tick/stop calls made
    cfg,          \* IngestionAgent.config.sources
    store,        \* IngestionAgent.store is not None
    sourceLast,   \* IngestionAgent._source_last
    snapshots,    \* rows of the store's table "snapshots"
    tables,       \* rows of the store's other tables, by table name
    nextId,       \* the next uuid.uuid4()
    tickNow,      \* now = time.time() of the _tick_impl in progress
    idx,          \* position of _tick_impl's loop in config.sources
    tickLog,      \* what the current tick did with each source
    tickEntry,    \* cursors and store contents when the tick began
    pending,      \* sources whose latest attempt failed
    stopEvent,    \* DummyAgent._stop_event.is_set()
    runPc,        \* position of DummyAgent.run_forever
    runs,         \* number of run_forever() calls made
    runExc,       \* the exception on its way out of run_forever
    runLog,       \* what the current run_forever() call has done
    lateTicks     \* tick() calls begun while the stop event was set

vars == <<state, lastTick, lastSuccess, lastError, error, started, ticks,
          stopped, now, stack, ret, report, calls,
          cfg, store, sourceLast, snapshots, tables, nextId, tickNow, idx,
          tickLog, tickEntry, pending,
          stopEvent, runPc, runs, runExc, runLog, lateTicks>>

runVars == <<stopEvent, runPc, runs, runExc, runLog, lateTicks>>

ingestVars == <<cfg, store, sourceLast, snapshots, tables, nextId, tickNow,
                idx, tickLog, tickEntry, pending>>

agentVars == <<state, lastTick, lastSuccess, lastError, error>>
hookVars == <<started, ticks, stopped>>

\* ---- pure functions -----------------------------------------------------
\* f"{type(exc).__name__}: {exc}"
MarkFailedText_NoKind(exc) == <<exc.msg>>
MarkFailedText(exc) == <<exc.kind, ": ", exc.msg>>

\* f"stop() failed: {exc!r}"
StopFailedText_NoPrefix(exc) == <<exc.kind, "(", exc.msg, ")">>
StopFailedText(exc) == <<"stop() failed: ", exc.kind, "(", exc.msg, ")">>

Contains(text, tok) == \E i \in DOMAIN text : text[i] = tok

\* ok = state in (RUNNING, STOPPED); if state == FAILED: ok = False
HealthOk_Stopping(st) == IF st = "failed" THEN FALSE
                         ELSE st \in {"running", "stopped", "stopping"}
HealthOk(st) == IF st = "failed" THEN FALSE ELSE st \in {"running", "stopped"}

\* if self._state in (RUNNING, STARTING): return
StartIsNoop_RunningOnly(st) == st = "running"
StartIsNoop_AlsoFailed(st) == st \in {"running", "starting", "failed"}
StartIsNoop(st) == st \in {"running", "starting"}

\* if self._state != RUNNING: raise RuntimeError
TickAllowed_AlsoFailed(st) == st \in {"running", "failed"}
TickAllowed_AlsoStopped(st) == st \in {"running", "stopped", "starting"}
TickAllowed(st) == st = "running"

\* if self._state in (STOPPING, STOPPED): return
StopIsNoop_StoppingOnly(st) == st = "stopping"
StopIsNoop(st) == st \in {"stopping", "stopped"}

\* ---- bookkeeping of calls ------------------------------------------------
Fields == [state |-> state, lastTick |-> lastTick, lastSuccess |-> lastSuccess,
           lastError |-> lastError, error |-> error,
           started |-> started, ticks |-> ticks, stopped |-> stopped]

NoFields == [state |-> "new", lastTick |-> NoTime, lastSuccess |-> NoTime,
             lastError |-> NoTime, error |-> NoError,
             started |-> 0, ticks |-> 0, stopped |-> 0]

NoRet == [op |-> "none", result |-> "none", exc |-> NoExc, hookExc |-> NoExc,
          entry |-> NoFields, at |-> NoTime, depth |-> 0]

NoReport == [valid |-> FALSE, state |-> "new", ok |-> FALSE,
             last_tick_utc |-> NoTime, last_success_utc |-> NoTime,
             last_error_utc |-> NoTime, error |-> NoError, exc |-> NoExc]

HookPcs == {"start_hook", "tick_hook", "stop_hook"}

Top == stack[Len(stack)]
Idle == stack = << >>
InHook == ~Idle /\ Top.pc \in HookPcs
At(pc) == ~Idle /\ Top.pc = pc

Frame(op, pc) == [op |-> op, pc |-> pc, exc |-> NoExc, entry |-> Fields, at |-> now]

Push(op, pc) == stack' = Append(stack, Frame(op, pc))
Goto(pc) == stack' = [stack EXCEPT ![Len(stack)].pc = pc]
GotoRaising(pc, exc) == stack' = [stack EXCEPT ![Len(stack)].pc = pc,
                                               ![Len(stack)].exc = exc]
Pop == stack' = SubSeq(stack, 1, Len(stack) - 1)

\* the call on top of the stack returns normally, or raises its exception;
\* hookExc is what the call's hook raised, exc what reaches the caller
Returned == ret' = [op |-> Top.op, result |-> "returned", exc |-> NoExc,
                    hookExc |-> Top.exc, entry |-> Top.entry, at |-> Top.at, depth |-> Len(stack)]
Raised == ret' = [op |-> Top.op, result |-> "raised", exc |-> Top.exc,
                  hookExc |-> Top.exc, entry |-> Top.entry, at |-> Top.at, depth |-> Len(stack)]
\* a call that returns or raises in its first step
ReturnedAtOnce(op) == ret' = [op |-> op, result |-> "returned", exc |-> NoExc,
                              hookExc |-> NoExc, entry |-> Fields, at |-> now, depth |-> Len(stack) + 1]
RaisedAtOnce(op, exc) == ret' = [op |-> op, result |-> "raised", exc |-> exc,
                                 hookExc |-> NoExc, entry |-> Fields, at |-> now, depth |-> Len(stack) + 1]

\* ---- IngestionAgent: values and pure functions ----------------------------
\* None in a SourceConfig field, and NULL in a column of "snapshots"
Null == "None"

SourceNames == {"a", "b"}
\* interval_s, in units of the clock
Intervals == {0, 1, 2}
\* (mode, path, url) of a SourceConfig: a file with a path, a url, and a file
\* source whose path was left at None
Locations == {[mode |-> "file", path |-> "q.json", url |-> Null],
              [mode |-> "url", path |-> Null, url |-> "http://q"],
              [mode |-> "file", path |-> Null, url |-> Null]}

SourceConfig(name, loc, interval) ==
    [name |-> name, mode |-> loc.mode, path |-> loc.path, url |-> loc.url,
     interval_s |-> interval]

\* the source of the repository's test: a file with a path, interval_s=0
PlainLocation == [mode |-> "file", path |-> "q.json", url |-> Null]

\* the sources tried: every location with interval_s=0, and the plain
\* location with every interval
Variants == {[loc |-> l, interval |-> 0] : l \in Locations}
            \cup {[loc |-> PlainLocation, interval |-> i] : i \in Intervals}

\* two sources with distinct names, in the configured order: one is the plain
\* source, the other any variant, in either position
Configs ==
    {<<SourceConfig("a", v.loc, v.interval), SourceConfig("b", PlainLocation, 0)>> :
        v \in Variants}
    \cup
    {<<SourceConfig("a", PlainLocation, 0), SourceConfig("b", v.loc, v.interval)>> :
        v \in Variants}

\* the text behind a location: p.read_text() and r.text
TextAt(s) == IF s.mode = "file" THEN "{q1}" ELSE "{q2}"

\* what BaseSource raises, and RuntimeError('invalid source config')
FileError == [kind |-> "FileNotFoundError", msg |-> "No such file"]
UrlError == [kind |-> "ConnectionError", msg |-> "unreachable"]
InvalidConfigError == [kind |-> "RuntimeError", msg |-> "invalid source config"]
\* what a statement of the store raises
SinkError == [kind |-> "IOException", msg |-> "sink failed"]

\* _fetch_source: which fetch the configuration selects
FetchKind(s) ==
    IF s.mode = "file" /\ s.path # Null THEN "file"
    ELSE IF s.mode = "url" /\ s.url # Null THEN "url"
    ELSE "invalid"

FetchError(s) ==
    IF FetchKind(s) = "file" THEN FileError
    ELSE IF FetchKind(s) = "url" THEN UrlError
    ELSE InvalidConfigError

\* hashlib.sha256(text.encode('utf-8')).hexdigest()
ContentHash(text) == <<"sha256", text>>
\* json.loads(text)
ParseJson(text) == <<"json", text>>
\* RawSnapshot(source, raw, fetched_utc=str(None), content_hash)
RawSnapshot(s, text) ==
    [source |-> IF FetchKind(s) = "file" THEN s.path ELSE s.url,
     raw |-> ParseJson(text), fetched_utc |-> Null,
     content_hash |-> ContentHash(text)]

\* self._source_last.get(name, 0)
Get(d, k, default) == IF k \in DOMAIN d THEN d[k] ELSE default

\* if now - last < s.interval_s: continue
IsDue_Strict(t, last, interval) == t - last > interval
IsDue(t, last, interval) == ~(t - last < interval)

\* f"{s.name}_history"
TableName(name) == <<name, "_history">>

\* _normalize: one row wrapping the payload
Normalize(raw, t) == <<[payload |-> raw.raw, fetched_utc |-> t]>>

\* write_table: each row is stored with the time of its insert
StoredRows(rows, t) == [i \in DOMAIN rows |-> [data |-> rows[i], updated_utc |-> t]]

\* record_snapshot(aid, s.name, True, raw.content_hash, None)
SuccessRecord_HashOfName(id, name, raw, t) ==
    [snapshot_id |-> id, source |-> name, fetched_utc |-> t,
     content_hash |-> ContentHash(name), ok |-> TRUE, error |-> Null]
SuccessRecord(id, name, raw, t) ==
    [snapshot_id |-> id, source |-> name, fetched_utc |-> t,
     content_hash |-> raw.content_hash, ok |-> TRUE, error |-> Null]

\* record_snapshot(str(uuid.uuid4()), s.name, False, None, str(exc))
FailureRecord_Ok(id, name, exc, t) ==
    [snapshot_id |-> id, source |-> name, fetched_utc |-> t,
     content_hash |-> Null, ok |-> TRUE, error |-> exc.msg]
FailureRecord(id, name, exc, t) ==
    [snapshot_id |-> id, source |-> name, fetched_utc |-> t,
     content_hash |-> Null, ok |-> FALSE, error |-> exc.msg]

\* self._source_last[s.name] = now
CursorOnSuccess(d, name, t) ==
    [k \in DOMAIN d \cup {name} |-> IF k = name THEN t ELSE d[k]]

\* the except branch does not assign self._source_last
CursorOnFailure_Advance(d, name, t) ==
    [k \in DOMAIN d \cup {name} |-> IF k = name THEN t ELSE d[k]]
CursorOnFailure_Forget(d, name, t) ==
    [k \in DOMAIN d \ {name} |-> d[k]]
CursorOnFailure(d, name, t) == d

NoLog == [outcome |-> "none", text |-> Null, recorded |-> FALSE]
FailedOutcomes == {"fetch_failed", "meta_failed", "rows_failed"}
EmptyTables == [n \in {TableName(x) : x \in SourceNames} |-> << >>]

InitIngestion ==
    /\ store = FALSE
    /\ sourceLast = << >>
    /\ snapshots = {}
    /\ tables = EmptyTables
    /\ nextId = 1
    /\ tickNow = 0
    /\ idx = 0
    /\ tickLog = [n \in SourceNames |-> NoLog]
    /\ tickEntry = [sourceLast |-> << >>, snapshots |-> {}, tables |-> EmptyTables]
    /\ pending = {}

\* ---- DummyAgent: values --------------------------------------------------
\* an error no hook of DummyAgent raises by itself, met inside tick()
UnexpectedError == [kind |-> "MemoryError", msg |-> "unexpected"]

NoRunLog == [flagAtEntry |-> FALSE, started |-> 0, ticks |-> 0, stopped |-> 0,
             entered |-> FALSE, stopCalls |-> 0, left |-> "none"]

\* DummyAgent.__init__: the stop event is not set; run_forever is not active
InitRunLoop ==
    /\ stopEvent = FALSE
    /\ runPc = "idle"
    /\ runs = 0
    /\ runExc = NoExc
    /\ runLog = NoRunLog
    /\ lateTicks = 0

InitAgent ==
    /\ state = "new"
    /\ lastTick = NoTime
    /\ lastSuccess = NoTime
    /\ lastError = NoTime
    /\ error = NoError
    /\ started = 0
    /\ ticks = 0
    /\ stopped = 0
    /\ now = 1
    /\ stack = << >>
    /\ ret = NoRet
    /\ report = NoReport
    /\ calls = 0

\* IngestionAgentConfig(sources=[]): the agent of Spec has no sources
Init ==
    /\ InitAgent
    /\ cfg = << >>
    /\ InitIngestion
    /\ InitRunLoop

\* ---- Agent.start --------------------------------------------------------
StartCall ==
    /\ IF StartIsNoop(state)
       THEN /\ ReturnedAtOnce("start")
            /\ UNCHANGED <<agentVars, stack>>
       ELSE /\ state' = "starting"
            /\ Push("start", "start_hook")
            /\ ret' = NoRet
            /\ UNCHANGED <<lastTick, lastSuccess, lastError, error>>
    /\ UNCHANGED <<hookVars, now, report, ingestVars>>

\* a call of the driver, counted
StartBody ==
    /\ calls < MaxOps
    /\ calls' = calls + 1
    /\ StartCall
    /\ UNCHANGED runVars

Start == Idle /\ StartBody

StartHook ==
    /\ At("start_hook")
    /\ started' = started + 1
    /\ \/ Goto("start_set_running")
       \/ \E exc \in Excs : GotoRaising("mark_failed_state", exc)
    /\ ret' = NoRet
    /\ UNCHANGED <<agentVars, ticks, stopped, now, report, calls, ingestVars, runVars>>

StartSetRunning ==
    /\ At("start_set_running")
    /\ state' = "running"
    /\ Goto("start_clear_error")
    /\ ret' = NoRet
    /\ UNCHANGED <<lastTick, lastSuccess, lastError, error, hookVars, now, report, calls, ingestVars, runVars>>

StartClearError_Skip ==
    /\ At("start_clear_error")
    /\ Pop
    /\ Returned
    /\ UNCHANGED <<agentVars, hookVars, now, report, calls, ingestVars, runVars>>

StartClearError ==
    /\ At("start_clear_error")
    /\ error' = NoError
    /\ Pop
    /\ Returned
    /\ UNCHANGED <<state, lastTick, lastSuccess, lastError, hookVars, now, report, calls, ingestVars, runVars>>

\* ---- Agent._mark_failed, then the bare raise of start() and tick() ------
MarkFailedSetState_Skip ==
    /\ At("mark_failed_state")
    /\ Goto("mark_failed_time")
    /\ ret' = NoRet
    /\ UNCHANGED <<agentVars, hookVars, now, report, calls, ingestVars, runVars>>

MarkFailedSetState ==
    /\ At("mark_failed_state")
    /\ state' = "failed"
    /\ Goto("mark_failed_time")
    /\ ret' = NoRet
    /\ UNCHANGED <<lastTick, lastSuccess, lastError, error, hookVars, now, report, calls, ingestVars, runVars>>

MarkFailedSetTime_Clear ==
    /\ At("mark_failed_time")
    /\ lastError' = NoTime
    /\ Goto("mark_failed_text")
    /\ ret' = NoRet
    /\ UNCHANGED <<state, lastTick, lastSuccess, error, hookVars, now, report, calls, ingestVars, runVars>>

MarkFailedSetTime ==
    /\ At("mark_failed_time")
    /\ lastError' = now
    /\ Goto("mark_failed_text")
    /\ ret' = NoRet
    /\ UNCHANGED <<state, lastTick, lastSuccess, error, hookVars, now, report, calls, ingestVars, runVars>>

MarkFailedSetText ==
    /\ At("mark_failed_text")
    /\ error' = MarkFailedText(Top.exc)
    /\ Pop
    /\ Raised
    /\ UNCHANGED <<state, lastTick, lastSuccess, lastError, hookVars, now, report, calls, ingestVars, runVars>>

\* ---- Agent.tick ---------------------------------------------------------
TickCall ==
    /\ IF ~TickAllowed(state)
       THEN /\ RaisedAtOnce("tick", NotRunningError)
            /\ UNCHANGED <<agentVars, stack>>
       ELSE /\ lastTick' = now
            /\ Push("tick", "tick_hook")
            /\ ret' = NoRet
            /\ UNCHANGED <<state, lastSuccess, lastError, error>>
    /\ UNCHANGED <<hookVars, now, report, ingestVars>>

\* a call of the driver, counted
TickBody ==
    /\ calls < MaxOps
    /\ calls' = calls + 1
    /\ TickCall
    /\ UNCHANGED runVars

Tick == Idle /\ TickBody

TickHook ==
    /\ At("tick_hook")
    /\ ticks' = ticks + 1
    /\ \/ Goto("tick_set_success")
       \/ \E exc \in Excs : GotoRaising("mark_failed_state", exc)
    /\ ret' = NoRet
    /\ UNCHANGED <<agentVars, started, stopped, now, report, calls, ingestVars, runVars>>

TickSetSuccess_Skip ==
    /\ At("tick_set_success")
    /\ Goto("tick_clear_error")
    /\ ret' = NoRet
    /\ UNCHANGED <<agentVars, hookVars, now, report, calls, ingestVars, runVars>>

TickSetSuccess ==
    /\ At("tick_set_success")
    /\ lastSuccess' = now
    /\ Goto("tick_clear_error")
    /\ ret' = NoRet
    /\ UNCHANGED <<state, lastTick, lastError, error, hookVars, now, report, calls, ingestVars, runVars>>

TickClearError ==
    /\ At("tick_clear_error")
    /\ error' = NoError
    /\ Pop
    /\ Returned
    /\ UNCHANGED <<state, lastTick, lastSuccess, lastError, hookVars, now, report, calls, ingestVars, runVars>>

\* ---- Agent.stop ---------------------------------------------------------
StopCall ==
    /\ IF StopIsNoop(state)
       THEN /\ ReturnedAtOnce("stop")
            /\ UNCHANGED <<agentVars, stack>>
       ELSE /\ state' = "stopping"
            /\ Push("stop", "stop_hook")
            /\ ret' = NoRet
            /\ UNCHANGED <<lastTick, lastSuccess, lastError, error>>
    /\ UNCHANGED <<hookVars, now, report, ingestVars>>

\* a call of the driver, counted
StopBody ==
    /\ calls < MaxOps
    /\ calls' = calls + 1
    /\ StopCall
    /\ UNCHANGED runVars

Stop == Idle /\ StopBody

StopHook ==
    /\ At("stop_hook")
    /\ stopped' = stopped + 1
    /\ \/ Goto("stop_set_stopped")
       \/ \E exc \in Excs : GotoRaising("stop_failed_time", exc)
    /\ ret' = NoRet
    /\ UNCHANGED <<agentVars, started, ticks, now, report, calls, ingestVars, runVars>>

StopSetStopped_Skip ==
    /\ At("stop_set_stopped")
    /\ Pop
    /\ Returned
    /\ UNCHANGED <<agentVars, hookVars, now, report, calls, ingestVars, runVars>>

StopSetStopped ==
    /\ At("stop_set_stopped")
    /\ state' = "stopped"
    /\ Pop
    /\ Returned
    /\ UNCHANGED <<lastTick, lastSuccess, lastError, error, hookVars, now, report, calls, ingestVars, runVars>>

StopFailedSetTime ==
    /\ At("stop_failed_time")
    /\ lastError' = now
    /\ Goto("stop_failed_text")
    /\ ret' = NoRet
    /\ UNCHANGED <<state, lastTick, lastSuccess, error, hookVars, now, report, calls, ingestVars, runVars>>

StopFailedSetText ==
    /\ At("stop_failed_text")
    /\ error' = StopFailedText(Top.exc)
    /\ Goto("stop_failed_state")
    /\ ret' = NoRet
    /\ UNCHANGED <<state, lastTick, lastSuccess, lastError, hookVars, now, report, calls, ingestVars, runVars>>

StopFailedSetState_Failed ==
    /\ At("stop_failed_state")
    /\ state' = "failed"
    /\ Pop
    /\ Raised
    /\ UNCHANGED <<lastTick, lastSuccess, lastError, error, hookVars, now, report, calls, ingestVars, runVars>>

StopFailedSetState ==
    /\ At("stop_failed_state")
    /\ state' = "stopped"
    /\ Pop
    /\ Raised
    /\ UNCHANGED <<lastTick, lastSuccess, lastError, error, hookVars, now, report, calls, ingestVars, runVars>>

\* ---- Agent.health -------------------------------------------------------
\* report.exc is the exception health() raised instead of returning a report
HealthReport == [valid |-> TRUE, state |-> state, ok |-> HealthOk(state),
                 last_tick_utc |-> lastTick, last_success_utc |-> lastSuccess,
                 last_error_utc |-> lastError, error |-> error, exc |-> NoExc]

\* details=self._health_details() returns a mapping
Health ==
    /\ report' = HealthReport
    /\ UNCHANGED <<agentVars, hookVars, now, stack, ret, calls, ingestVars, runVars>>

\* details=self._health_details() raises: nothing in health() catches it
HealthDetailsRaises ==
    /\ \E exc \in Excs : report' = [NoReport EXCEPT !.exc = exc]
    /\ UNCHANGED <<agentVars, hookVars, now, stack, ret, calls, ingestVars, runVars>>

\* ---- the clock ----------------------------------------------------------
Advance ==
    /\ now < MaxTime
    /\ now' = now + 1
    /\ UNCHANGED <<agentVars, hookVars, stack, ret, report, calls, ingestVars, runVars>>

\* ---- calls issued while a hook is executing -----------------------------
CanNest == InHook /\ Len(stack) < MaxDepth
NestedStart == CanNest /\ StartBody
NestedTick == CanNest /\ TickBody
NestedStop == CanNest /\ StopBody

\* ---- IngestionAgent hooks ------------------------------------------------
lifeVars == <<state, lastTick, lastSuccess, lastError, error, now, report, calls>>

\* _start_impl: self.store = DuckDBStore(':memory:'), a new empty database;
\* the constructor may raise, and then self.store keeps its value
IngestStartHook ==
    /\ At("start_hook")
    /\ started' = started + 1
    /\ \/ /\ store' = TRUE
          /\ snapshots' = {}
          /\ tables' = EmptyTables
          /\ Goto("start_set_running")
       \/ /\ GotoRaising("mark_failed_state", SinkError)
          /\ UNCHANGED <<store, snapshots, tables>>
    /\ ret' = NoRet
    /\ UNCHANGED <<runVars, lifeVars, ticks, stopped, cfg, sourceLast, nextId, tickNow,
                   idx, tickLog, tickEntry, pending>>

\* _stop_impl: self.store = None
IngestStopHook ==
    /\ At("stop_hook")
    /\ stopped' = stopped + 1
    /\ store' = FALSE
    /\ Goto("stop_set_stopped")
    /\ ret' = NoRet
    /\ UNCHANGED <<runVars, lifeVars, started, ticks, cfg, sourceLast, snapshots, tables,
                   nextId, tickNow, idx, tickLog, tickEntry, pending>>

\* _tick_impl, entry: now = time.time()
IngestTickBegin ==
    /\ At("tick_hook")
    /\ ticks' = ticks + 1
    /\ tickNow' = now
    /\ idx' = 1
    /\ tickLog' = [n \in SourceNames |-> NoLog]
    /\ tickEntry' = [sourceLast |-> sourceLast, snapshots |-> snapshots,
                     tables |-> tables]
    /\ Goto("ingest_loop")
    /\ ret' = NoRet
    /\ UNCHANGED <<runVars, lifeVars, started, stopped, cfg, store, sourceLast, snapshots,
                   tables, nextId, pending>>

Log(name, outcome, text, recorded) ==
    tickLog' = [tickLog EXCEPT ![name] =
                   [outcome |-> outcome, text |-> text, recorded |-> recorded]]

\* the loop goes on to the next source
Continue == idx' = idx + 1 /\ UNCHANGED stack
\* an exception leaves _tick_impl
Escape(exc) == idx' = idx /\ GotoRaising("mark_failed_state", exc)

\* if now - last < s.interval_s: continue
SourceSkipped(s) ==
    /\ ~IsDue(tickNow, Get(sourceLast, s.name, 0), s.interval_s)
    /\ Log(s.name, "skipped", Null, FALSE)
    /\ Continue
    /\ UNCHANGED <<sourceLast, snapshots, tables, nextId, pending>>

\* the try block ran to its end: fetch, record_snapshot, _normalize,
\* write_table, and the cursor
SourceOk(s) ==
    /\ IsDue(tickNow, Get(sourceLast, s.name, 0), s.interval_s)
    /\ FetchKind(s) # "invalid"
    /\ LET text == TextAt(s)
           raw == RawSnapshot(s, text)
           rows == Normalize(raw, now)
           table == TableName(s.name)
       IN /\ snapshots' = snapshots \cup {SuccessRecord(nextId, s.name, raw, now)}
          /\ tables' = [tables EXCEPT ![table] = @ \o StoredRows(rows, now)]
          /\ Log(s.name, "ok", text, TRUE)
    /\ nextId' = nextId + 1
    /\ sourceLast' = CursorOnSuccess(sourceLast, s.name, tickNow)
    /\ pending' = pending \ {s.name}
    /\ Continue

\* except Exception as exc:
\*     if self.store: self.store.record_snapshot(uuid4, s.name, False, None, str(exc))
\* snaps and id are the table "snapshots" and the next uuid as the try block
\* left them; the record_snapshot of the handler may itself raise
HandleFailure(s, outcome, text, exc, snaps, id) ==
    /\ sourceLast' = CursorOnFailure(sourceLast, s.name, tickNow)
    /\ pending' = pending \cup {s.name}
    /\ UNCHANGED tables
    /\ IF ~store
       THEN /\ snapshots' = snaps
            /\ nextId' = id
            /\ Log(s.name, outcome, text, FALSE)
            /\ Continue
       ELSE \/ /\ snapshots' = snaps \cup {FailureRecord(id, s.name, exc, now)}
               /\ nextId' = id + 1
               /\ Log(s.name, outcome, text, TRUE)
               /\ Continue
            \/ /\ snapshots' = snaps
               /\ nextId' = id + 1
               /\ Log(s.name, outcome, text, FALSE)
               /\ Escape(SinkError)

\* raw = self._fetch_source(s) raises
SourceFetchFailed(s) ==
    /\ IsDue(tickNow, Get(sourceLast, s.name, 0), s.interval_s)
    /\ HandleFailure(s, "fetch_failed", Null, FetchError(s), snapshots, nextId)

\* the record_snapshot(aid, s.name, True, ...) of the try block raises
SourceMetaFailed(s) ==
    /\ IsDue(tickNow, Get(sourceLast, s.name, 0), s.interval_s)
    /\ FetchKind(s) # "invalid"
    /\ HandleFailure(s, "meta_failed", TextAt(s), SinkError, snapshots, nextId + 1)

\* write_table(table, rows) raises, after the success record was written
SourceRowsFailed(s) ==
    /\ IsDue(tickNow, Get(sourceLast, s.name, 0), s.interval_s)
    /\ FetchKind(s) # "invalid"
    /\ HandleFailure(s, "rows_failed", TextAt(s), SinkError,
                     snapshots \cup {SuccessRecord(nextId, s.name,
                                                  RawSnapshot(s, TextAt(s)), now)},
                     nextId + 1)

\* _tick_impl, one iteration of: for s in self.config.sources
IngestSource ==
    /\ At("ingest_loop")
    /\ idx <= Len(cfg)
    /\ \/ SourceSkipped(cfg[idx])
       \/ SourceOk(cfg[idx])
       \/ SourceFetchFailed(cfg[idx])
       \/ SourceMetaFailed(cfg[idx])
       \/ SourceRowsFailed(cfg[idx])
    /\ ret' = NoRet
    /\ UNCHANGED <<runVars, lifeVars, hookVars, cfg, store, tickNow, tickEntry>>

\* _tick_impl returns when the loop is through
IngestTickEnd ==
    /\ At("ingest_loop")
    /\ idx > Len(cfg)
    /\ Goto("tick_set_success")
    /\ ret' = NoRet
    /\ UNCHANGED <<runVars, lifeVars, hookVars, ingestVars, runVars>>

\* ---- DummyAgent: hooks and run_forever ----------------------------------
\* _start_impl: return
DummyStartHook_ClearsEvent ==
    /\ At("start_hook")
    /\ started' = started + 1
    /\ stopEvent' = FALSE
    /\ Goto("start_set_running")
    /\ ret' = NoRet
    /\ UNCHANGED <<agentVars, ticks, stopped, now, report, calls, ingestVars,
                   runPc, runs, runExc, runLog, lateTicks>>

DummyStartHook ==
    /\ At("start_hook")
    /\ started' = started + 1
    /\ Goto("start_set_running")
    /\ ret' = NoRet
    /\ UNCHANGED <<agentVars, ticks, stopped, now, report, calls, ingestVars, runVars>>

\* _tick_impl: self._ticks += 1, then the simulated work, during which an
\* unexpected error may surface
DummyTickHook ==
    /\ At("tick_hook")
    /\ ticks' = ticks + 1
    /\ \/ Goto("tick_set_success")
       \/ GotoRaising("mark_failed_state", UnexpectedError)
    /\ ret' = NoRet
    /\ UNCHANGED <<agentVars, started, stopped, now, report, calls, ingestVars, runVars>>

\* _stop_impl: self._stop_event.set()
DummyStopHook ==
    /\ At("stop_hook")
    /\ stopped' = stopped + 1
    /\ stopEvent' = TRUE
    /\ Goto("stop_set_stopped")
    /\ ret' = NoRet
    /\ UNCHANGED <<agentVars, started, ticks, now, report, calls, ingestVars,
                   runPc, runs, runExc, runLog, lateTicks>>

\* request_stop(), from another thread or from the signal handler
RequestStop ==
    /\ stopEvent' = TRUE
    /\ UNCHANGED <<agentVars, hookVars, now, stack, ret, report, calls, ingestVars,
                   runPc, runs, runExc, runLog, lateTicks>>

\* run_forever(), entry: self.start()
RunForever ==
    /\ runPc = "idle" /\ Idle
    /\ runs < MaxRuns
    /\ runs' = runs + 1
    /\ runLog' = [flagAtEntry |-> stopEvent, started |-> started, ticks |-> ticks,
                  stopped |-> stopped, entered |-> FALSE, stopCalls |-> 0,
                  left |-> "none"]
    /\ runExc' = NoExc
    /\ StartCall
    /\ runPc' = "started"
    /\ UNCHANGED <<calls, stopEvent, lateTicks>>

\* start() has returned: self._install_signal_handlers(), then the try block
RunInstallHandlers ==
    /\ runPc = "started" /\ Idle
    /\ runPc' = "check"
    /\ ret' = NoRet
    /\ UNCHANGED <<agentVars, hookVars, now, stack, report, calls, ingestVars,
                   stopEvent, runs, runExc, runLog, lateTicks>>

\* while not self._stop_event.is_set(): a loop that never reads the event
RunLoopCheck_IgnoresEvent ==
    /\ runPc = "check"
    /\ ticks < MaxLoopTicks
    /\ runPc' = "tick"
    /\ runLog' = [runLog EXCEPT !.entered = TRUE]
    /\ ret' = NoRet
    /\ UNCHANGED <<agentVars, hookVars, now, stack, report, calls, ingestVars,
                   stopEvent, runs, runExc, lateTicks>>

\* while not self._stop_event.is_set():
RunLoopCheck ==
    /\ runPc = "check"
    /\ IF stopEvent
       THEN runPc' = "cleanup"
       ELSE ticks < MaxLoopTicks /\ runPc' = "tick"
    /\ runLog' = [runLog EXCEPT !.entered = TRUE]
    /\ ret' = NoRet
    /\ UNCHANGED <<agentVars, hookVars, now, stack, report, calls, ingestVars,
                   stopEvent, runs, runExc, lateTicks>>

\* self.tick()
RunTick ==
    /\ runPc = "tick" /\ Idle
    /\ TickCall
    /\ runPc' = "ticking"
    /\ lateTicks' = IF stopEvent THEN lateTicks + 1 ELSE lateTicks
    /\ UNCHANGED <<calls, stopEvent, runs, runExc, runLog>>

\* tick() raised, and the try block has no finally: run_forever is left
RunTickDone_NoFinally ==
    /\ runPc = "ticking" /\ Idle
    /\ IF ret.result = "raised"
       THEN /\ runExc' = ret.exc
            /\ runPc' = "idle"
            /\ runLog' = [runLog EXCEPT !.left = "raised"]
       ELSE /\ runPc' = "sleep"
            /\ UNCHANGED <<runExc, runLog>>
    /\ ret' = NoRet
    /\ UNCHANGED <<agentVars, hookVars, now, stack, report, calls, ingestVars,
                   stopEvent, runs, lateTicks>>

\* tick() has returned, or has raised: then the finally block is next
RunTickDone ==
    /\ runPc = "ticking" /\ Idle
    /\ IF ret.result = "raised"
       THEN runExc' = ret.exc /\ runPc' = "cleanup"
       ELSE runPc' = "sleep" /\ UNCHANGED runExc
    /\ ret' = NoRet
    /\ UNCHANGED <<agentVars, hookVars, now, stack, report, calls, ingestVars,
                   stopEvent, runs, runLog, lateTicks>>

\* time.sleep(tick_interval_s) ends, and the loop tests the event only every
\* other iteration
RunSleep_SkipsCheck ==
    /\ runPc = "sleep"
    /\ runPc' = IF ticks < MaxLoopTicks THEN "tick" ELSE "check"
    /\ ret' = NoRet
    /\ UNCHANGED <<agentVars, hookVars, now, stack, report, calls, ingestVars,
                   stopEvent, runs, runExc, runLog, lateTicks>>

\* time.sleep(tick_interval_s) ends
RunSleep ==
    /\ runPc = "sleep"
    /\ runPc' = "check"
    /\ ret' = NoRet
    /\ UNCHANGED <<agentVars, hookVars, now, stack, report, calls, ingestVars,
                   stopEvent, runs, runExc, runLog, lateTicks>>

\* finally: self.stop()
RunCleanup ==
    /\ runPc = "cleanup" /\ Idle
    /\ StopCall
    /\ runPc' = "stopping"
    /\ runLog' = [runLog EXCEPT !.stopCalls = @ + 1]
    /\ UNCHANGED <<calls, stopEvent, runs, runExc, lateTicks>>

\* stop() has returned: run_forever returns, or the error of tick() goes on
RunLeave ==
    /\ runPc = "stopping" /\ Idle
    /\ runPc' = "idle"
    /\ runLog' = [runLog EXCEPT !.left = IF runExc # NoExc THEN "raised"
                                        ELSE "returned"]
    /\ ret' = NoRet
    /\ UNCHANGED <<agentVars, hookVars, now, stack, report, calls, ingestVars,
                   stopEvent, runs, runExc, lateTicks>>

\* ---- specifications -----------------------------------------------------
Next ==
    \/ Start \/ StartHook \/ StartSetRunning \/ StartClearError
    \/ MarkFailedSetState \/ MarkFailedSetTime \/ MarkFailedSetText
    \/ Tick \/ TickHook \/ TickSetSuccess \/ TickClearError
    \/ Stop \/ StopHook \/ StopSetStopped
    \/ StopFailedSetTime \/ StopFailedSetText \/ StopFailedSetState
    \/ Health \/ HealthDetailsRaises
    \/ Advance

Spec == Init /\ [][Next]_vars

NextReentrant == Next \/ NestedStart \/ NestedTick \/ NestedStop

SpecReentrant == Init /\ [][NextReentrant]_vars

\* the clock as the ingestion sees it: it moves between the driver's calls,
\* and inside a tick once _tick_impl has read time.time(), so that the loop
\* may run at a later reading than the tick's "now"
AdvanceIngest == (Idle \/ (At("ingest_loop") /\ idx = 1)) /\ Advance

\* an IngestionAgent over two configured sources, driven by one driver
InitIngest ==
    /\ InitAgent
    /\ cfg \in Configs
    /\ InitIngestion
    /\ InitRunLoop

NextIngest ==
    \/ Start \/ IngestStartHook \/ StartSetRunning \/ StartClearError
    \/ MarkFailedSetState \/ MarkFailedSetTime \/ MarkFailedSetText
    \/ Tick \/ IngestTickBegin \/ IngestSource \/ IngestTickEnd
    \/ TickSetSuccess \/ TickClearError
    \/ Stop \/ IngestStopHook \/ StopSetStopped
    \/ AdvanceIngest

SpecIngest == InitIngest /\ [][NextIngest]_vars

\* a DummyAgent driven by run_forever() calls of one thread, while other
\* threads (or the signal handler) call request_stop()
RunThread ==
    \/ DummyStartHook \/ StartSetRunning \/ StartClearError
    \/ RunInstallHandlers \/ RunLoopCheck \/ RunTick
    \/ DummyTickHook \/ TickSetSuccess \/ TickClearError
    \/ MarkFailedSetState \/ MarkFailedSetTime \/ MarkFailedSetText
    \/ RunTickDone \/ RunSleep \/ RunCleanup
    \/ DummyStopHook \/ StopSetStopped \/ RunLeave

NextRun == RunForever \/ RunThread \/ RequestStop \/ Advance

SpecRun == Init /\ [][NextRun]_vars

\* the thread inside run_forever keeps taking steps: ticks terminate
SpecRunLive == SpecRun /\ WF_vars(RunThread)

TypeOK ==
    /\ state \in AgentState
    /\ lastTick \in 0..MaxTime
    /\ lastSuccess \in 0..MaxTime
    /\ lastError \in 0..MaxTime
    /\ now \in 1..MaxTime
    /\ calls \in 0..MaxOps
    /\ Len(stack) <= MaxDepth

\* ---- properties ---------------------------------------------------------
\* ret describes a call exactly as long as the agent is as that call left it:
\* every later step of a call resets ret, health() and the clock keep it.

\* C1: the report of health() has ok = true exactly when the agent's state is
\* running or stopped, and ok = false in new, starting, stopping and failed;
\* this holds of the last report taken and of the report a call would return
\* in the current state.
C1_HealthOkIffRunningOrStopped ==
    /\ report.valid => (report.ok <=> report.state \in {"running", "stopped"})
    /\ HealthReport.state = state
    /\ HealthReport.ok <=> state \in {"running", "stopped"}
    /\ state \in {"new", "starting", "stopping", "failed"} => ~HealthReport.ok

C1_Witness == report.valid /\ report.state = "starting" /\ ~report.ok

\* C2: a tick() entered in state running whose hook raised leaves state
\* failed, an error text containing the exception's type name and message,
\* lastError set to a clock reading taken during the call, lastSuccess as it
\* was at entry, and raises the hook's exception to the caller.
C2_TickFailureCaptured ==
    (ret.op = "tick" /\ ret.entry.state = "running" /\ ret.hookExc # NoExc) =>
        /\ state = "failed"
        /\ ret.result = "raised"
        /\ ret.exc = ret.hookExc
        /\ Contains(error, ret.hookExc.kind)
        /\ Contains(error, ret.hookExc.msg)
        /\ lastError # NoTime
        /\ ret.at <= lastError /\ lastError <= now
        /\ lastSuccess = ret.entry.lastSuccess

C2_Witness ==
    /\ ret.op = "tick" /\ ret.result = "raised" /\ ret.hookExc \in Excs
    /\ ret.entry.lastSuccess # NoTime
    /\ state = "failed"

\* C3: a tick() called in a state other than running raises the "not running"
\* error, does not run the tick hook, and leaves state, lastTick, lastSuccess,
\* lastError, error (and the hooks' counters) as they were at the call.
C3_TickRejectedWhenNotRunning ==
    (ret.op = "tick" /\ ret.entry.state # "running") =>
        /\ ret.result = "raised"
        /\ ret.exc = NotRunningError
        /\ Fields = ret.entry

C3_Witness ==
    /\ ret.op = "tick" /\ ret.entry.state = "starting"
    /\ ret.result = "raised" /\ ret.exc = NotRunningError

\* C4: a tick() entered in state running whose hook returned normally returns
\* with state running, lastTick equal to the clock at entry, lastSuccess set
\* and not earlier than lastTick, and no error.
C4_TickSuccess ==
    (ret.op = "tick" /\ ret.entry.state = "running" /\ ret.hookExc = NoExc) =>
        /\ ret.result = "returned"
        /\ state = "running"
        /\ lastTick = ret.at
        /\ lastSuccess # NoTime
        /\ lastSuccess >= lastTick
        /\ error = NoError

C4_Witness ==
    /\ ret.op = "tick" /\ ret.result = "returned"
    /\ lastSuccess > lastTick
    /\ lastError # NoTime

\* C5: a start() called in new, failed or stopped runs the start hook exactly
\* once and, when the hook succeeds, returns with state running and no error.
C5_StartRunsHookOnceAndRecovers ==
    (ret.op = "start" /\ ret.entry.state \in {"new", "failed", "stopped"}) =>
        /\ started = ret.entry.started + 1
        /\ ret.hookExc = NoExc =>
              /\ ret.result = "returned"
              /\ state = "running"
              /\ error = NoError

C5_Witness ==
    /\ ret.op = "start" /\ ret.entry.state = "failed"
    /\ ret.entry.error # NoError
    /\ ret.result = "returned" /\ state = "running"

\* C6: a start() called in new, failed or stopped whose hook raised leaves
\* state failed, an error text containing the exception's type name and
\* message, lastError set to a clock reading taken during the call, and raises
\* the hook's exception to the caller.
C6_StartFailureCaptured ==
    (ret.op = "start" /\ ret.entry.state \in {"new", "failed", "stopped"}
       /\ ret.hookExc # NoExc) =>
        /\ state = "failed"
        /\ ret.result = "raised"
        /\ ret.exc = ret.hookExc
        /\ Contains(error, ret.hookExc.kind)
        /\ Contains(error, ret.hookExc.msg)
        /\ lastError # NoTime
        /\ ret.at <= lastError /\ lastError <= now

C6_Witness ==
    /\ ret.op = "start" /\ ret.entry.state = "stopped"
    /\ ret.result = "raised" /\ ret.hookExc \in Excs
    /\ state = "failed"

\* C7: a stop() called in a state other than stopping or stopped leaves state
\* stopped whether its hook returned or raised; when the hook raised, the
\* error text carries the prefix "stop() failed" and the exception, lastError
\* is set to a clock reading taken during the call, and the hook's exception
\* is raised to the caller.
C7_StopAlwaysEndsStopped ==
    (ret.op = "stop" /\ ret.entry.state \notin {"stopping", "stopped"}) =>
        /\ state = "stopped"
        /\ stopped = ret.entry.stopped + 1
        /\ ret.hookExc = NoExc => ret.result = "returned"
        /\ ret.hookExc # NoExc =>
              /\ ret.result = "raised"
              /\ ret.exc = ret.hookExc
              /\ error[1] = "stop() failed: "
              /\ Contains(error, ret.hookExc.kind)
              /\ Contains(error, ret.hookExc.msg)
              /\ lastError # NoTime
              /\ ret.at <= lastError /\ lastError <= now

C7_Witness ==
    /\ ret.op = "stop" /\ ret.entry.state = "running"
    /\ ret.result = "raised" /\ ret.hookExc \in Excs
    /\ state = "stopped"

\* C8: a start() called in running or starting returns without running the
\* start hook and leaves state, timestamps, error (and the hooks' counters)
\* as they were at the call.
C8_StartIdempotent ==
    (ret.op = "start" /\ ret.entry.state \in {"running", "starting"}) =>
        /\ ret.result = "returned"
        /\ started = ret.entry.started
        /\ Fields = ret.entry

C8_Witness ==
    /\ ret.op = "start" /\ ret.entry.state = "starting"
    /\ ret.result = "returned" /\ started = ret.entry.started

\* C9: a stop() called in stopped or stopping returns without raising and
\* without running the stop hook and leaves state, timestamps, error (and the
\* hooks' counters) as they were at the call, also when the stop() before it
\* raised.
C9_StopIdempotent ==
    (ret.op = "stop" /\ ret.entry.state \in {"stopped", "stopping"}) =>
        /\ ret.result = "returned"
        /\ stopped = ret.entry.stopped
        /\ Fields = ret.entry

C9_Witness ==
    /\ ret.op = "stop" /\ ret.entry.state = "stopped"
    /\ Contains(ret.entry.error, "stop() failed: ")
    /\ ret.result = "returned" /\ stopped = 1

\* the call whose step is being taken
ActingOp == IF Len(stack') > Len(stack) THEN stack'[Len(stack')].op ELSE Top.op

C10_Listed ==
    {<<"new", "starting", "start">>, <<"failed", "starting", "start">>,
     <<"stopped", "starting", "start">>,
     <<"starting", "running", "start">>, <<"starting", "failed", "start">>,
     <<"running", "failed", "tick">>,
     <<"running", "stopping", "stop">>, <<"starting", "stopping", "stop">>,
     <<"failed", "stopping", "stop">>, <<"stopped", "stopping", "stop">>,
     <<"stopping", "stopped", "stop">>}

\* C10 as stated: every change of state is one of the listed transitions, made
\* by the listed operation, and only start() takes the agent out of stopped.
C10_OnlyListedTransitions ==
    [][state' # state =>
         /\ <<state, state', ActingOp>> \in C10_Listed
         /\ state = "stopped" => ActingOp = "start"]_vars

\* C10 as amended: the listed transitions and new to stopping (by stop).
C10_TransitionsWithStopFromNew ==
    [][state' # state =>
         /\ <<state, state', ActingOp>> \in
                C10_Listed \cup {<<"new", "stopping", "stop">>}
         /\ state = "stopped" => ActingOp = "start"]_vars

C10_Witness ==
    /\ ret.op = "stop" /\ ret.entry.state = "new"
    /\ ret.result = "returned" /\ state = "stopped"

\* C11 as stated: every health() call, in every state and whatever the hooks
\* do, returns a report (it never raises) and leaves state, timestamps and
\* error as they were.
C11_HealthNeverRaises ==
    [][report' # report =>
         /\ report'.valid
         /\ report'.exc = NoExc
         /\ UNCHANGED agentVars]_vars

\* C12 as stated, in its first named instance: no report of health() shows
\* state failed while the error text or lastError of that failure is missing.
C12_NoTornFailureReport ==
    (report.valid /\ report.state = "failed") =>
        /\ report.error # NoError
        /\ report.last_error_utc # NoTime

\* ---- properties of the ingestion ----------------------------------------
\* a tick() that ran _tick_impl has just returned or raised
TickDone == ret.op = "tick" /\ ret.entry.state = "running"

\* the rows the current tick added to the table "snapshots"
NewSnapshots == snapshots \ tickEntry.snapshots
NewSnapshotsOf(n) == {r \in NewSnapshots : r.source = n}

\* the source was due when the tick began
DueAtBegin(s) == tickNow - Get(tickEntry.sourceLast, s.name, 0) >= s.interval_s

\* no statement of the store failed in the current tick
SinkHealthy ==
    \A n \in SourceNames :
        /\ tickLog[n].outcome \notin {"meta_failed", "rows_failed"}
        /\ tickLog[n].outcome = "fetch_failed" => tickLog[n].recorded

\* the step in which the loop deals with the source named n
Processing(n) == tickLog[n].outcome = "none" /\ tickLog'[n].outcome # "none"

\* a cursor entry, or its absence
Cursor(d, n) == IF n \in DOMAIN d THEN <<d[n]>> ELSE << >>

\* C13 as stated: after a tick, every source that was due at its beginning
\* has been dealt with, whatever happened to the other sources; and when one
\* source's fetch failed and the other's attempt succeeded, the tick added
\* exactly one success record and one failure record, the succeeding source
\* has its row and its cursor at the tick's "now", and the failing source's
\* cursor is as it was.
C13_PerSourceIsolation ==
    TickDone =>
        /\ \A i \in DOMAIN cfg :
               DueAtBegin(cfg[i]) => tickLog[cfg[i].name].outcome \notin {"none", "skipped"}
        /\ \A f \in SourceNames, g \in SourceNames :
               (tickLog[f].outcome = "fetch_failed" /\ tickLog[g].outcome = "ok") =>
                   /\ Cardinality({r \in NewSnapshots : r.ok}) = 1
                   /\ Cardinality({r \in NewSnapshots : ~r.ok}) = 1
                   /\ \A r \in NewSnapshots : r.source = IF r.ok THEN g ELSE f
                   /\ Len(tables[TableName(g)]) = Len(tickEntry.tables[TableName(g)]) + 1
                   /\ Cursor(sourceLast, g) = <<tickNow>>
                   /\ Cursor(sourceLast, f) = Cursor(tickEntry.sourceLast, f)

\* C14: after a tick in which no statement of the store failed, a source whose
\* fetch failed has exactly one new record, with ok = false, no content hash
\* and an error message, and no new row in its table; tick() returned, the
\* state is running, lastSuccess was written by this tick and error is None.
C14_FetchFailureAbsorbed ==
    (TickDone /\ SinkHealthy) =>
        \A n \in SourceNames :
            tickLog[n].outcome = "fetch_failed" =>
                /\ ret.result = "returned"
                /\ Cardinality(NewSnapshotsOf(n)) = 1
                /\ \A r \in NewSnapshotsOf(n) :
                       ~r.ok /\ r.content_hash = Null /\ r.error # Null
                /\ tables[TableName(n)] = tickEntry.tables[TableName(n)]
                /\ state = "running"
                /\ lastSuccess # NoTime /\ lastSuccess >= ret.at
                /\ error = NoError

C14_Witness ==
    /\ TickDone /\ SinkHealthy /\ ret.result = "returned"
    /\ \E r \in NewSnapshots : ~r.ok /\ r.error = FileError.msg
    /\ state = "running"

\* C15 as stated: every tick() of a running IngestionAgent returns normally
\* and leaves the agent running, with every configured source dealt with.
C15_NoFailureEscapesTick ==
    TickDone =>
        /\ ret.result = "returned"
        /\ state = "running"
        /\ \A i \in DOMAIN cfg : tickLog[cfg[i].name].outcome # "none"

\* C16: a source's cursor changes only in the step in which the loop deals
\* with that source and the fetch, both writes to the store and the
\* normalisation succeeded, and it is then the "now" of that tick.
C16_CursorChangesOnlyOnSuccess ==
    [][\A n \in SourceNames :
          Cursor(sourceLast', n) # Cursor(sourceLast, n) =>
              /\ At("ingest_loop")
              /\ cfg[idx].name = n
              /\ tickLog'[n].outcome = "ok"
              /\ Cursor(sourceLast', n) = <<tickNow>>]_vars

C16_Witness ==
    \E n \in SourceNames, m \in SourceNames :
        /\ tickLog[n].outcome = "ok" /\ Cursor(sourceLast, n) = <<tickNow>>
        /\ tickLog[m].outcome \in FailedOutcomes
        /\ m \in DOMAIN sourceLast /\ sourceLast[m] < tickNow

\* C17: when the loop of a tick taken at "now" deals with a source whose
\* cursor is last (0 when it has none), the source is fetched exactly when
\* now - last >= interval_s; a skipped source changes no cursor, no table and
\* no record; a source with interval_s = 0 is never skipped.
C17_IntervalGate ==
    [][\A i \in DOMAIN cfg :
          Processing(cfg[i].name) =>
              /\ tickLog'[cfg[i].name].outcome # "skipped"
                   <=> tickNow - Get(sourceLast, cfg[i].name, 0) >= cfg[i].interval_s
              /\ tickLog'[cfg[i].name].outcome = "skipped"
                   => UNCHANGED <<sourceLast, snapshots, tables, nextId>>
              /\ cfg[i].interval_s = 0
                   => tickLog'[cfg[i].name].outcome # "skipped"]_vars

C17_Witness ==
    \E i \in DOMAIN cfg :
        /\ cfg[i].interval_s = 1
        /\ tickLog[cfg[i].name].outcome = "skipped"
        /\ Cursor(sourceLast, cfg[i].name) = <<tickNow>>

\* C18 as stated: a source without a cursor entry is never skipped.
C18_NeverFetchedIsDue ==
    [][\A n \in SourceNames :
          (Processing(n) /\ n \notin DOMAIN sourceLast) =>
              tickLog'[n].outcome # "skipped"]_vars

C20_SuccessPath ==
    [][\A i \in DOMAIN cfg :
          LET n == cfg[i].name
              text == tickLog'[n].text
          IN (Processing(n) /\ tickLog'[n].outcome = "ok") =>
                 /\ Cardinality(snapshots' \ snapshots) = 1
                 /\ \A r \in snapshots' \ snapshots :
                        /\ r.source = n /\ r.ok /\ r.error = Null
                        /\ r.content_hash = <<"sha256", text>>
                        /\ \A q \in snapshots : q.snapshot_id # r.snapshot_id
                 /\ Len(tables'[<<n, "_history">>]) = Len(tables[<<n, "_history">>]) + 1
                 /\ SubSeq(tables'[<<n, "_history">>], 1, Len(tables[<<n, "_history">>]))
                        = tables[<<n, "_history">>]
                 /\ tables'[<<n, "_history">>][Len(tables'[<<n, "_history">>])].data.payload
                        = <<"json", text>>
                 /\ \A t \in DOMAIN tables : t # <<n, "_history">> => tables'[t] = tables[t]
                 /\ Cursor(sourceLast', n) = <<tickNow>>]_vars

C20_Witness ==
    \E n \in SourceNames :
        /\ tickLog[n].outcome = "ok"
        /\ Len(tables[<<n, "_history">>]) = 2
        /\ Cursor(sourceLast, n) = <<tickNow>>
        /\ now > tickNow

\* ---- further properties of the lifecycle ---------------------------------
\* the call that has just returned or raised ran its start or tick hook
RanStartOrTickHook ==
    \/ ret.op = "start" /\ ret.entry.state \notin {"running", "starting"}
    \/ ret.op = "tick" /\ ret.entry.state = "running"

\* C21 as stated: after a start() or tick() that ran its hook, error is
\* present exactly when that call failed; any other call (a stop(), a no-op
\* start(), a rejected tick()) leaves error present or absent as it found it.
\* By induction over the calls this is "error is present iff the most recent
\* start() or tick() that ran its hook failed".
C21_ErrorIffLastStartOrTickFailed ==
    ret.op # "none" =>
        IF RanStartOrTickHook
        THEN (error # NoError) <=> (ret.result = "raised")
        ELSE (error # NoError) <=> (ret.entry.error # NoError)

\* C21, amended: as above, except that a stop() whose hook failed leaves
\* error present, with a text that marks it as a failure of stop(); every
\* other stop(), no-op start() and rejected tick() leaves error as it was.
C21_ErrorIffLastHookFailed ==
    ret.op # "none" =>
        IF RanStartOrTickHook
        THEN (error # NoError) <=> (ret.result = "raised")
        ELSE IF ret.op = "stop" /\ ret.result = "raised"
        THEN error # NoError /\ Contains(error, "stop() failed: ")
        ELSE error = ret.entry.error

C21_Witness ==
    /\ ret.op = "stop" /\ ret.result = "raised"
    /\ ret.entry.state = "running" /\ ret.entry.error = NoError
    /\ error # NoError

\* C22: lastTick, lastSuccess and lastError are absent at first; each changes
\* only at its event (entry of a tick() that runs its hook, return of the
\* tick hook, recording of a failure) and then takes the current reading of
\* the clock, so it is never unset and never decreases.
C22_TimestampsMonotone ==
    /\ lastTick = NoTime /\ lastSuccess = NoTime /\ lastError = NoTime
    /\ [][/\ lastTick' >= lastTick
          /\ lastSuccess' >= lastSuccess
          /\ lastError' >= lastError
          /\ lastTick' # lastTick =>
                 /\ lastTick' = now /\ now # NoTime
                 /\ state = "running"
                 /\ Len(stack') = Len(stack) + 1
                 /\ stack'[Len(stack')].op = "tick"
          /\ lastSuccess' # lastSuccess =>
                 /\ lastSuccess' = now /\ now # NoTime
                 /\ At("tick_set_success") /\ Top.op = "tick" /\ Top.exc = NoExc
          /\ lastError' # lastError =>
                 /\ lastError' = now /\ now # NoTime
                 /\ ~Idle /\ Top.exc # NoExc]_vars

C22_Witness ==
    /\ Idle
    /\ lastSuccess = 1 /\ lastTick = 2 /\ lastError = 2

\* C27 as stated: a call made in state failed leaves health().ok false unless
\* it is a start() that succeeded.
C27_OkFalseUntilStartSucceeds ==
    (ret.op # "none" /\ ret.entry.state = "failed") =>
        (HealthReport.ok => (ret.op = "start" /\ ret.result = "returned"))

\* C27, amended: a call made in state failed behaves as follows: a tick() is
\* rejected and leaves the agent failed with ok = false; a start() that fails
\* leaves it failed with ok = false, one that succeeds leaves it running with
\* ok = true and no error; a stop() leaves it stopped with ok = true, and
\* when its hook returned the recorded error is still present.
C27_OkFalseUntilStartOrStop ==
    (ret.op # "none" /\ ret.entry.state = "failed") =>
        /\ ret.entry.error # NoError
        /\ ret.op = "tick" =>
               /\ ret.result = "raised"
               /\ state = "failed" /\ ~HealthReport.ok
               /\ error = ret.entry.error
        /\ (ret.op = "start" /\ ret.result = "raised") =>
               state = "failed" /\ ~HealthReport.ok /\ error # NoError
        /\ (ret.op = "start" /\ ret.result = "returned") =>
               state = "running" /\ HealthReport.ok /\ error = NoError
        /\ ret.op = "stop" =>
               /\ state = "stopped" /\ HealthReport.ok
               /\ error # NoError
               /\ ret.result = "returned" => error = ret.entry.error

C27_Witness ==
    /\ ret.op = "stop" /\ ret.result = "returned"
    /\ ret.entry.state = "failed"
    /\ state = "stopped" /\ error # NoError
    /\ report.valid /\ report.ok /\ report.state = "stopped" /\ report.error # NoError

\* C28: with one driver, whenever no call is in progress the state is new,
\* running, stopped or failed; the state is starting only inside a start()
\* call, from its first assignment to the one that follows the hook, and
\* stopping only inside a stop() call; no call returns or raises in either.
C28_TransientStatesOnlyInsideCalls ==
    /\ Idle => state \in {"new", "running", "stopped", "failed"}
    /\ ret.op # "none" => state \in {"new", "running", "stopped", "failed"}
    /\ state = "starting" =>
           /\ ~Idle /\ Top.op = "start"
           /\ Top.pc \in {"start_hook", "start_set_running", "mark_failed_state"}
    /\ state = "stopping" =>
           /\ ~Idle /\ Top.op = "stop"
           /\ Top.pc \in {"stop_hook", "stop_set_stopped", "stop_failed_time",
                          "stop_failed_text", "stop_failed_state"}
    /\ (~Idle /\ Top.pc = "start_hook") => state = "starting"
    /\ (~Idle /\ Top.pc = "stop_hook") => state = "stopping"

C28_Witness ==
    /\ report.valid /\ report.state = "stopping"
    /\ Idle /\ state = "stopped"
    /\ ret.op = "stop" /\ ret.result = "raised"

\* C26 as stated: the table "snapshots" holds as many ok = true records for a
\* source as the source's table holds rows; after a tick, a record with
\* ok = true written by the tick belongs to a source whose attempt succeeded
\* and whose cursor is the tick's "now"; and a source whose write to the
\* store failed has exactly one new record, with ok = false.
C26_SuccessRecordMeansPersisted ==
    \A n \in SourceNames :
        /\ Cardinality({r \in snapshots : r.source = n /\ r.ok})
               = Len(tables[TableName(n)])
        /\ TickDone =>
               /\ (\E r \in NewSnapshotsOf(n) : r.ok) =>
                      /\ tickLog[n].outcome = "ok"
                      /\ Cursor(sourceLast, n) = <<tickNow>>
               /\ tickLog[n].outcome \in {"meta_failed", "rows_failed"} =>
                      /\ Cardinality(NewSnapshotsOf(n)) = 1
                      /\ \A r \in NewSnapshotsOf(n) : ~r.ok

\* ---- properties of the run loop ------------------------------------------
\* run_forever has been left, by a return or by an exception
RunLeft == runPc = "idle" /\ runLog.left # "none"

\* the thread of run_forever is at the loop: its test, the call of tick() or
\* the sleep
InLoop == runPc \in {"check", "tick", "ticking", "sleep"}

\* C23: when run_forever is left after its loop was reached, whether by a
\* return or with the error of tick(), it has called stop() exactly once,
\* and the agent is stopped; an error of tick() is recorded and goes on to
\* the caller.
C23_RunLoopAlwaysStops ==
    (RunLeft /\ runLog.entered) =>
        /\ runLog.stopCalls = 1
        /\ stopped = runLog.stopped + 1
        /\ state = "stopped"
        /\ runLog.left = "raised" <=> runExc # NoExc
        /\ runLog.left = "raised" => error # NoError

C23_Witness ==
    /\ RunLeft /\ runLog.entered
    /\ runLog.left = "raised" /\ runExc = UnexpectedError
    /\ state = "stopped" /\ runLog.stopCalls = 1

\* C24: once the stop event is set while run_forever is active, run_forever
\* is eventually left with the agent stopped; while the event is not set the
\* agent is running whenever the thread is at the loop's test, call or
\* sleep, and the loop's test never leaves the loop.
C24_StopRequestEndsRunLoop ==
    /\ (stopEvent /\ runPc # "idle") ~> (RunLeft /\ state = "stopped")
    /\ []((~stopEvent /\ runPc \in {"check", "tick", "sleep"}) => state = "running")
    /\ [][(runPc = "check" /\ ~stopEvent /\ runPc' # "check") => runPc' = "tick"]_vars

C24_Witness ==
    /\ RunLeft /\ runLog.left = "returned"
    /\ ~runLog.flagAtEntry /\ stopEvent
    /\ ticks > runLog.ticks
    /\ state = "stopped"

\* C25: a tick() call is in progress only at the loop's call, and the state
\* is then never stopping or stopped; a stop() call is in progress only in
\* the cleanup after the loop; setting the stop event changes nothing of the
\* agent or of the thread in run_forever; and at most one tick() begins
\* while the event is set.
C25_NoMidTickCancellation ==
    /\ []((~Idle /\ Top.op = "tick") =>
              runPc = "ticking" /\ state \in {"running", "failed"})
    /\ []((~Idle /\ Top.op = "stop") => runPc = "stopping")
    /\ [](lateTicks <= 1)
    /\ [][(stopEvent' # stopEvent /\ InLoop) =>
              UNCHANGED <<agentVars, hookVars, stack, runPc, runLog>>]_vars
    /\ [][(state' = "stopping" /\ state # "stopping") => runPc = "cleanup"]_vars

C25_Witness ==
    /\ lateTicks = 1
    /\ RunLeft /\ runLog.left = "returned"
    /\ ticks = runLog.ticks + 1
    /\ state = "stopped"

\* C29: the stop event, once set, stays set; every run of the stop hook
\* leaves it set; and a run_forever() call entered with the event set runs
\* the start hook once, no tick hook and the stop hook once, and returns with
\* the agent stopped.
C29_StopEventNeverCleared ==
    /\ [][stopEvent => stopEvent']_vars
    /\ [][stopped' # stopped => stopEvent']_vars
    /\ [](state = "stopped" => stopEvent)
    /\ []((runLog.flagAtEntry /\ runPc # "idle") => ticks = runLog.ticks)
    /\ []((RunLeft /\ runLog.flagAtEntry) =>
              /\ started = runLog.started + 1
              /\ ticks = runLog.ticks
              /\ stopped = runLog.stopped + 1
              /\ runLog.left = "returned"
              /\ state = "stopped")

C29_Witness ==
    /\ runs = 2 /\ RunLeft /\ runLog.flagAtEntry
    /\ runLog.ticks > 0 /\ ticks = runLog.ticks
    /\ state = "stopped"
====
